---- MODULE Spec2Model ----
(***************************************************************************)
(* Model of the sales dashboard views.                                     *)
(*                                                                         *)
(*   models.py  SalesDay: unmanaged table "sales_2020Q4", primary key day  *)
(*              (a calendar date), sales a PositiveIntegerField.            *)
(*   views.py   sales_dashboard_view: the chart view.                       *)
(*   views0.py  sales_dashboard_view: the listing view.                     *)
(*                                                                         *)
(* The table is owned by an external ingestion process; requests are       *)
(* served concurrently, each one in its own slot of Requests.  A query     *)
(* without ORDER BY returns the rows in an order the database chooses, and *)
(* a query may fail (connection or query error).                           *)
(***************************************************************************)
EXTENDS Integers, Sequences, FiniteSets, TLC

VARIABLES
    workers,    \* the request slots the server runs
    table,      \* rows of sales_2020Q4 on the connection "sales_db"
    pc,         \* position of each request in its view
    view,       \* which view serves the request: "chart", "listing", "none"
    qs,         \* the lazy QuerySet the view built
    days,       \* the evaluated QuerySet: the rows in the order returned
    snap,       \* the table as it was when the request's query ran
    queries,    \* number of queries the request issued
    dbError,    \* the data source raised during the request's query
    df,         \* the chart view's DataFrame
    response    \* what the view returned

vars == <<workers, table, pc, view, qs, days, snap, queries, dbError, df, response>>

----------------------------------------------------------------------------
(* Bounds and sample inputs *)

MaxRows == 2

Requests == {"r1", "r2"}

Date(y, m, d) == [year |-> y, month |-> m, day |-> d]

Dates == {Date(2020, 10, 1), Date(2020, 10, 2), Date(2020, 12, 31)}

SalesValues == {0, 12}

MsSamples == {0, 1, 86399999}

\* the GET parameters a request may carry: none, or a day
RequestParams == {{}, {Date(2020, 10, 1)}}

----------------------------------------------------------------------------
(* models.py: SalesDay *)

SalesDay == [day : Dates, sales : SalesValues]

\* day is the primary key: one row per calendar day
PrimaryKey(rows) == \A a, b \in rows : a.day = b.day => a = b

Tables == {t \in SUBSET SalesDay : PrimaryKey(t) /\ Cardinality(t) <= MaxRows}

----------------------------------------------------------------------------
(* str(datetime.date): ISO form YYYY-MM-DD, zero padded *)

Digits == <<"0", "1", "2", "3", "4", "5", "6", "7", "8", "9">>

DigitChar(n) == Digits[n + 1]

DigitValues == [c \in {Digits[i] : i \in 1..10} |-> (CHOOSE i \in 1..10 : Digits[i] = c) - 1]

IsDigit(c) == c \in DOMAIN DigitValues

DigitVal(c) == DigitValues[c]

Pad2(n) == <<DigitChar((n \div 10) % 10), DigitChar(n % 10)>>

Pad4(n) == <<DigitChar((n \div 1000) % 10), DigitChar((n \div 100) % 10)>> \o Pad2(n % 100)

RECURSIVE Decimal(_)
Decimal(n) == IF n < 10 THEN <<DigitChar(n)>> ELSE Decimal(n \div 10) \o <<DigitChar(n % 10)>>

\* a plausible slip: the fields joined without zero padding
StrNoPad(d) == Decimal(d.year) \o <<"-">> \o Decimal(d.month) \o <<"-">> \o Decimal(d.day)

Str(d) == Pad4(d.year) \o <<"-">> \o Pad2(d.month) \o <<"-">> \o Pad2(d.day)

----------------------------------------------------------------------------
(* 'day:temporal' with timeUnit "utcyearmonthdate": the renderer parses the *)
(* day string to a UTC instant and truncates it to the calendar day.        *)

InvalidDate == [date |-> Date(0, 0, 0), ms |-> 0]

IsIsoDate(s) ==
    /\ Len(s) = 10
    /\ s[5] = "-" /\ s[8] = "-"
    /\ \A i \in {1, 2, 3, 4, 6, 7, 9, 10} : IsDigit(s[i])

ParseDate(s) ==
    IF IsIsoDate(s)
    THEN [date |-> Date(DigitVal(s[1]) * 1000 + DigitVal(s[2]) * 100
                          + DigitVal(s[3]) * 10 + DigitVal(s[4]),
                        DigitVal(s[6]) * 10 + DigitVal(s[7]),
                        DigitVal(s[9]) * 10 + DigitVal(s[10])),
          ms |-> 0]
    ELSE InvalidDate

UtcYearMonthDate(ts) == [ts EXCEPT !.ms = 0]

\* the x category a data point's day string falls in
XCategory(s) == UtcYearMonthDate(ParseDate(s))

----------------------------------------------------------------------------
(* QuerySets *)

\* a plausible slip: the request's parameters passed on to filter()
ChartQuerySetByParams(req) == [alias |-> "sales_db", filters |-> req]

\* views.py:8  SalesDay.objects.using("sales_db").filter()
ChartQuerySet(req) == [alias |-> "sales_db", filters |-> {}]

\* views0.py:6  SalesDay.objects.using("sales_db").all()
ListingQuerySet(req) == [alias |-> "sales_db", filters |-> {}]

NoQuerySet == [alias |-> "", filters |-> {}]

\* the rows a QuerySet selects: every filter must match
Select(q, rows) == {row \in rows : \A f \in q.filters : row.day = f}

\* the orders in which the database may return a set of rows
Orders(rows) ==
    {s \in [1..Cardinality(rows) -> rows] : \A i, j \in DOMAIN s : s[i] = s[j] => i = j}

----------------------------------------------------------------------------
(* views.py:9-10  the DataFrame *)

RECURSIVE Reverse(_)
Reverse(s) == IF s = <<>> THEN <<>> ELSE Reverse(Tail(s)) \o <<Head(s)>>

NonZero(row) == row.sales # 0

ChartRow(row) == [day |-> Str(row.day), sales |-> row.sales]

\* plausible slips: rows without sales left out; rows taken newest first
DataFrameSkipZero(rows) ==
    [i \in 1..Len(SelectSeq(rows, NonZero)) |-> ChartRow(SelectSeq(rows, NonZero)[i])]

DataFrameReversed(rows) == [i \in 1..Len(rows) |-> ChartRow(Reverse(rows)[i])]

DataFrame(rows) == [i \in 1..Len(rows) |-> ChartRow(rows[i])]

----------------------------------------------------------------------------
(* views.py:11-15  the chart, and chart.to_json() *)

ChartWidth == 800

Unspecified == "unspecified"

\* 'day:temporal' names field and type; "sales" names the field only
XChannel == [field |-> "day", type |-> "temporal", title |-> "Day",
             timeUnit |-> "utcyearmonthdate"]

YChannel == [field |-> "sales", type |-> Unspecified, title |-> "Sales"]

TooltipChannels ==
    << [field |-> "day", type |-> "temporal", title |-> "Day",
        timeUnit |-> "utcyearmonthdate"],
       [field |-> "sales", type |-> Unspecified] >>

Chart(data) ==
    [data |-> data, mark |-> "bar",
     encoding |-> [x |-> XChannel, y |-> YChannel, tooltip |-> TooltipChannels],
     width |-> ChartWidth]

\* the type of a channel given without one is inferred from the column: an
\* integer column is quantitative, a column without values falls back to nominal
InferType(data, field) == IF Len(data) = 0 THEN "nominal" ELSE "quantitative"

Resolve(channel, data) ==
    IF channel.type = Unspecified
    THEN [channel EXCEPT !.type = InferType(data, channel.field)]
    ELSE channel

ToJson(chart) ==
    [mark |-> chart.mark,
     encoding |-> [x |-> Resolve(chart.encoding.x, chart.data),
                   y |-> Resolve(chart.encoding.y, chart.data),
                   tooltip |-> [i \in 1..Len(chart.encoding.tooltip) |->
                                   Resolve(chart.encoding.tooltip[i], chart.data)]],
     width |-> chart.width,
     data |-> chart.data]

\* a plausible slip: the bar mark only set when there is something to plot
ChartContextNoMark(data) ==
    [chart |-> [ToJson(Chart(data)) EXCEPT !.mark = IF Len(data) = 0 THEN "" ELSE "bar"]]

\* views.py:17  {"chart": chart.to_json()}
ChartContext(data) == [chart |-> ToJson(Chart(data))]

\* a plausible slip: the records filtered before they reach the template
ListingContextSkipZero(rows) == [days |-> SelectSeq(rows, NonZero)]

\* views0.py:7  {"days": days}
ListingContext(rows) == [days |-> rows]

Render(template, context) == [template |-> template, context |-> context]

NoResponse == [template |-> "", context |-> [k \in {} |-> ""]]

----------------------------------------------------------------------------
(* Initial state: any table, no request in progress *)

InitWith(w) ==
    /\ workers = w
    /\ table \in Tables
    /\ pc = [r \in Requests |-> "idle"]
    /\ view = [r \in Requests |-> "none"]
    /\ qs = [r \in Requests |-> NoQuerySet]
    /\ days = [r \in Requests |-> <<>>]
    /\ snap = [r \in Requests |-> {}]
    /\ queries = [r \in Requests |-> 0]
    /\ dbError = [r \in Requests |-> FALSE]
    /\ df = [r \in Requests |-> <<>>]
    /\ response = [r \in Requests |-> NoResponse]

----------------------------------------------------------------------------
(* The external ingestion process *)

Insert(d, s) ==
    /\ \A row \in table : row.day # d
    /\ Cardinality(table) < MaxRows
    /\ table' = table \cup {[day |-> d, sales |-> s]}
    /\ UNCHANGED <<workers, pc, view, qs, days, snap, queries, dbError, df, response>>

Update(d, s) ==
    /\ \E row \in table : row.day = d /\ row.sales # s
    /\ table' = {row \in table : row.day # d} \cup {[day |-> d, sales |-> s]}
    /\ UNCHANGED <<workers, pc, view, qs, days, snap, queries, dbError, df, response>>

Delete(d) ==
    /\ \E row \in table : row.day = d
    /\ table' = {row \in table : row.day # d}
    /\ UNCHANGED <<workers, pc, view, qs, days, snap, queries, dbError, df, response>>

----------------------------------------------------------------------------
(* What a view does with a failure of its query *)

\* a plausible slip: the failure caught and the view carried on
Swallow(ok, next) == next

\* neither view has a try/except: the exception leaves the view
Propagate(ok, next) == IF ok THEN next ELSE "raised"

----------------------------------------------------------------------------
(* views.py: the chart view *)

\* line 8: the QuerySet is built; nothing is read yet
ChartCall(r) ==
    /\ pc[r] = "idle"
    /\ \E req \in RequestParams :
          qs' = [qs EXCEPT ![r] = ChartQuerySet(req)]
    /\ view' = [view EXCEPT ![r] = "chart"]
    /\ pc' = [pc EXCEPT ![r] = "chart_called"]
    /\ UNCHANGED <<workers, table, days, snap, queries, dbError, df, response>>

\* lines 9-10: iterating the QuerySet runs its one query; the rows become
\* the DataFrame
ChartFetch(r) ==
    /\ pc[r] = "chart_called"
    /\ queries' = [queries EXCEPT ![r] = @ + 1]
    /\ \E ok \in BOOLEAN :
          /\ dbError' = [dbError EXCEPT ![r] = ~ok]
          /\ pc' = [pc EXCEPT ![r] = Propagate(ok, "chart_fetched")]
          /\ IF ok
             THEN /\ snap' = [snap EXCEPT ![r] = table]
                  /\ \E order \in Orders(Select(qs[r], table)) :
                        /\ days' = [days EXCEPT ![r] = order]
                        /\ df' = [df EXCEPT ![r] = DataFrame(order)]
             ELSE UNCHANGED <<snap, days, df>>
    /\ UNCHANGED <<workers, table, view, qs, response>>

\* a plausible slip: the rows written back to the table while rendering
ChartRenderSaving(r) ==
    /\ pc[r] = "chart_fetched"
    /\ response' = [response EXCEPT ![r] = Render("sales_dashboard.html", ChartContext(df[r]))]
    /\ pc' = [pc EXCEPT ![r] = "done"]
    /\ table' = snap[r]
    /\ UNCHANGED <<workers, view, qs, days, snap, queries, dbError, df>>

\* a plausible slip: the DataFrame kept in a module-level variable that the
\* requests share
ChartRenderShared(r) ==
    /\ pc[r] = "chart_fetched"
    /\ \E o \in Requests :
          /\ o = r \/ pc[o] = "chart_fetched"
          /\ response' = [response EXCEPT ![r] =
                             Render("sales_dashboard.html", ChartContext(df[o]))]
    /\ pc' = [pc EXCEPT ![r] = "done"]
    /\ UNCHANGED <<workers, table, view, qs, days, snap, queries, dbError, df>>

\* lines 11-17: the chart is built from the DataFrame and rendered
ChartRender(r) ==
    /\ pc[r] = "chart_fetched"
    /\ response' = [response EXCEPT ![r] = Render("sales_dashboard.html", ChartContext(df[r]))]
    /\ pc' = [pc EXCEPT ![r] = "done"]
    /\ UNCHANGED <<workers, table, view, qs, days, snap, queries, dbError, df>>

----------------------------------------------------------------------------
(* views0.py: the listing view *)

\* line 6: the QuerySet is built; nothing is read yet
ListingCall(r) ==
    /\ pc[r] = "idle"
    /\ \E req \in RequestParams :
          qs' = [qs EXCEPT ![r] = ListingQuerySet(req)]
    /\ view' = [view EXCEPT ![r] = "listing"]
    /\ pc' = [pc EXCEPT ![r] = "listing_called"]
    /\ UNCHANGED <<workers, table, days, snap, queries, dbError, df, response>>

\* line 7: the template evaluates the QuerySet it is handed
ListingRender(r) ==
    /\ pc[r] = "listing_called"
    /\ queries' = [queries EXCEPT ![r] = @ + 1]
    /\ \E ok \in BOOLEAN :
          /\ dbError' = [dbError EXCEPT ![r] = ~ok]
          /\ pc' = [pc EXCEPT ![r] = Propagate(ok, "done")]
          /\ IF ok
             THEN /\ snap' = [snap EXCEPT ![r] = table]
                  /\ \E order \in Orders(Select(qs[r], table)) :
                        /\ days' = [days EXCEPT ![r] = order]
                        /\ response' = [response EXCEPT ![r] =
                               Render("sales_dashboard0.html", ListingContext(order))]
             ELSE UNCHANGED <<snap, days, response>>
    /\ UNCHANGED <<workers, table, view, qs, df>>

----------------------------------------------------------------------------
(* The response (or the exception) has left the view: the request's objects *)
(* are gone and the slot serves the next request                            *)

Complete(r) ==
    /\ pc[r] \in {"done", "raised"}
    /\ pc' = [pc EXCEPT ![r] = "idle"]
    /\ view' = [view EXCEPT ![r] = "none"]
    /\ qs' = [qs EXCEPT ![r] = NoQuerySet]
    /\ days' = [days EXCEPT ![r] = <<>>]
    /\ snap' = [snap EXCEPT ![r] = {}]
    /\ queries' = [queries EXCEPT ![r] = 0]
    /\ dbError' = [dbError EXCEPT ![r] = FALSE]
    /\ df' = [df EXCEPT ![r] = <<>>]
    /\ response' = [response EXCEPT ![r] = NoResponse]
    /\ UNCHANGED <<workers, table>>

----------------------------------------------------------------------------

ViewStep ==
    \E r \in workers :
        \/ ChartCall(r)
        \/ ChartFetch(r)
        \/ ChartRender(r)
        \/ ListingCall(r)
        \/ ListingRender(r)
        \/ Complete(r)

Ingest ==
    \E d \in Dates :
        \/ \E s \in SalesValues : Insert(d, s)
        \/ \E s \in SalesValues : Update(d, s)
        \/ Delete(d)

Next == ViewStep \/ Ingest

\* a server of several workers: requests overlap
Init == InitWith(Requests)

Spec == Init /\ [][Next]_vars

\* a server of one worker: one request at a time
InitOneWorker == InitWith({"r1"})

SpecOneWorker == InitOneWorker /\ [][Next]_vars

----------------------------------------------------------------------------
(* Properties *)

ChartFetched(r) == view[r] = "chart" /\ pc[r] \in {"chart_fetched", "done"}

ChartDone(r) == view[r] = "chart" /\ pc[r] = "done"

ListingDone(r) == view[r] = "listing" /\ pc[r] = "done"

HasRead(r) == ChartFetched(r) \/ ListingDone(r)

Elements(s) == {s[i] : i \in DOMAIN s}

Ordinal(d) == d.year * 10000 + d.month * 100 + d.day

\* C1: a chart request's DataFrame holds exactly one (day, sales) pair per
\* row of the table as it was read: as many pairs as rows, and for each row
\* exactly one pair with the row's day as a string and the row's sales.
ChartTableOnePairPerRow ==
    \A r \in Requests :
        ChartFetched(r) =>
            /\ Len(df[r]) = Cardinality(snap[r])
            /\ \A row \in snap[r] :
                  Cardinality({i \in DOMAIN df[r] :
                      df[r][i] = [day |-> Str(row.day), sales |-> row.sales]}) = 1
            /\ ChartDone(r) => response[r].context.chart.data = df[r]

ChartTableOnePairPerRowWitness ==
    \E r \in Requests :
        /\ ChartDone(r)
        /\ Cardinality(snap[r]) = 2
        /\ \E row \in snap[r] : row.sales = 0

\* C2: the i-th pair of the DataFrame comes from the i-th row the query
\* returned, whatever order the database returned the rows in.
ChartTableKeepsQueryOrder ==
    \A r \in Requests :
        ChartFetched(r) =>
            /\ Len(df[r]) = Len(days[r])
            /\ \A i \in DOMAIN df[r] :
                  /\ df[r][i].day = Str(days[r][i].day)
                  /\ df[r][i].sales = days[r][i].sales

ChartTableKeepsQueryOrderWitness ==
    \E r \in Requests :
        /\ ChartDone(r)
        /\ Len(days[r]) = 2
        /\ Ordinal(days[r][1].day) > Ordinal(days[r][2].day)
        /\ response[r].context.chart.data[1].day = Str(days[r][1].day)

\* C3: every chart response declares mark bar, x on day (temporal, truncated
\* to the UTC calendar day, titled Day), y on sales titled Sales, a tooltip of
\* the truncated day and sales, and width 800, whatever its data.
ChartSpecFixedParts ==
    \A r \in Requests :
        ChartDone(r) =>
            LET c == response[r].context.chart IN
            /\ c.mark = "bar"
            /\ c.encoding.x.field = "day"
            /\ c.encoding.x.type = "temporal"
            /\ c.encoding.x.timeUnit = "utcyearmonthdate"
            /\ c.encoding.x.title = "Day"
            /\ c.encoding.y.field = "sales"
            /\ c.encoding.y.title = "Sales"
            /\ Len(c.encoding.tooltip) = 2
            /\ c.encoding.tooltip[1].field = "day"
            /\ c.encoding.tooltip[1].type = "temporal"
            /\ c.encoding.tooltip[1].timeUnit = "utcyearmonthdate"
            /\ c.encoding.tooltip[2].field = "sales"
            /\ c.width = 800

ChartSpecFixedPartsWitness ==
    \E r \in Requests :
        /\ ChartDone(r)
        /\ Len(response[r].context.chart.data) = 2
        /\ response[r].context.chart.data[1].sales # response[r].context.chart.data[2].sales

\* the encodings of a chart of one row
NonEmptyEncoding ==
    ToJson(Chart(DataFrame(<<[day |-> Date(2020, 10, 1), sales |-> 12]>>))).encoding

\* C4: with no rows in the table the chart view returns a response whose
\* chart has no data points and the same mark and encodings as a chart of a
\* table with rows.
EmptyTableSameEncodings ==
    \A r \in Requests :
        (ChartDone(r) /\ snap[r] = {}) =>
            LET c == response[r].context.chart IN
            /\ DOMAIN response[r].context = {"chart"}
            /\ c.data = <<>>
            /\ c.mark = "bar"
            /\ c.encoding = NonEmptyEncoding

\* C5: the listing view's context has the one key days, holding the fetched
\* records themselves: one per row of the table read, none changed.
ListingPassesRecords ==
    \A r \in Requests :
        ListingDone(r) =>
            /\ response[r].template = "sales_dashboard0.html"
            /\ DOMAIN response[r].context = {"days"}
            /\ Len(response[r].context.days) = Cardinality(snap[r])
            /\ Elements(response[r].context.days) = snap[r]

ListingPassesRecordsWitness ==
    \E r \in Requests :
        /\ ListingDone(r)
        /\ Len(response[r].context.days) = 2
        /\ \E row \in snap[r] : row.sales = 0

\* C6: no step of a view changes the table.
ViewsNeverWrite == [][ViewStep => table' = table]_vars

ViewsNeverWriteWitness ==
    \E r, o \in Requests :
        /\ pc[r] = "done" /\ pc[o] = "raised"
        /\ snap[r] # {} /\ snap[r] # table

\* C7: a request whose query failed raised the failure: it issued that one
\* query only and returned no response; and only a failed query raises.
FailurePropagates ==
    \A r \in Requests :
        /\ dbError[r] => (pc[r] = "raised" /\ queries[r] = 1 /\ response[r] = NoResponse)
        /\ pc[r] = "raised" => dbError[r]
        /\ queries[r] <= 1

FailurePropagatesWitness ==
    \E r, o \in Requests :
        /\ view[r] = "chart" /\ dbError[r]
        /\ view[o] = "listing" /\ dbError[o]

\* the response of a request served alone that is returned these rows
LoneResponse(v, rows) ==
    IF v = "chart"
    THEN Render("sales_dashboard.html", ChartContext(DataFrame(rows)))
    ELSE Render("sales_dashboard0.html", ListingContext(rows))

\* C8: the response of a request is the response of a request served alone
\* on the rows it read, whatever other requests and table updates came in
\* between; a slot between requests holds nothing of the request before.
ResponseFromOwnSnapshot ==
    \A r \in Requests :
        /\ pc[r] = "done" => response[r] = LoneResponse(view[r], days[r])
        /\ pc[r] = "idle" => (df[r] = <<>> /\ days[r] = <<>> /\ response[r] = NoResponse)

ResponseFromOwnSnapshotWitness ==
    \E r, o \in Requests :
        /\ ChartDone(r) /\ view[o] = "chart" /\ pc[o] = "chart_fetched"
        /\ snap[r] # {} /\ snap[o] # {} /\ snap[r] # snap[o]
        /\ table # snap[r] /\ table # snap[o]

\* C9: parsing a pair's day string gives the row's date again; the pairs of
\* two rows fall in the same x category exactly when the rows have the same
\* date; and an instant's x category does not depend on its time of day.
DayRoundTrip ==
    /\ \A r \in Requests :
          ChartFetched(r) =>
              LET parsed == [i \in DOMAIN df[r] |-> ParseDate(df[r][i].day)]
                  x == [i \in DOMAIN df[r] |-> UtcYearMonthDate(parsed[i])]
              IN  \A i \in DOMAIN df[r] :
                      /\ parsed[i] = [date |-> days[r][i].day, ms |-> 0]
                      /\ \A j \in DOMAIN df[r] :
                            x[i] = x[j] <=> days[r][i].day = days[r][j].day
    /\ \A d \in Dates : \A m \in MsSamples :
          UtcYearMonthDate([date |-> d, ms |-> m]) = UtcYearMonthDate([date |-> d, ms |-> 0])

DayRoundTripWitness ==
    \E r \in Requests :
        /\ ChartDone(r)
        /\ Len(df[r]) = 2
        /\ df[r][1].day = <<"2", "0", "2", "0", "-", "1", "0", "-", "0", "1">>
        /\ XCategory(df[r][2].day).date = Date(2020, 12, 31)

\* C10: a request of either view reads every row of the table, from the
\* connection sales_db: the chart view's filter() leaves no row out, so the
\* two views read the same rows of the same table.
FilterReadsAllRows ==
    /\ \A r \in Requests :
          HasRead(r) => (qs[r].alias = "sales_db" /\ Elements(days[r]) = snap[r])
    /\ \A r, o \in Requests :
          (ChartFetched(r) /\ ListingDone(o) /\ snap[r] = snap[o])
              => Elements(days[r]) = Elements(days[o])

FilterReadsAllRowsWitness ==
    \E r, o \in Requests :
        /\ ChartDone(r) /\ ListingDone(o)
        /\ snap[r] = snap[o]
        /\ Cardinality(Elements(days[r])) = 2

====
